---- MODULE Spec2Model ----
(***************************************************************************)
(* WAGO quote PDF parser: the original pipeline                            *)
(* (parse_wago_quote_pdf_v1_original.py) and the simplified pipeline       *)
(* (parse_wago_quote_pdf.py).                                              *)
(*                                                                         *)
(* Text is a sequence of one-character strings, so that the regular        *)
(* expressions, str methods and number formatting of the source are        *)
(* computed character by character.  A table cell is a record              *)
(* [kind, num, str]: kind "none" (None), "str" (text), "float" (a number,  *)
(* num = its value in hundredths) or "nan" (float NaN).                    *)
(***************************************************************************)
EXTENDS Integers, Sequences, FiniteSets, TLC

\* ------------------------------------------------------------------------
\* Bounds of the model
\* ------------------------------------------------------------------------
MaxPages == 2

MaxTables == 2

MaxTotalRows == 4

\* the longest header row given to _infer_column_indices alone
MaxHeaderLen == 5

\* the most pages of a document whose page selection is checked
MaxDocPages == 11

\* the most rows of the table given to the row loop of parse_pdf alone
MaxGridRows == 3

\* ------------------------------------------------------------------------
\* Python None for an Optional[int] / Optional[str]
\* ------------------------------------------------------------------------
None == -1

NoneStr == <<"None">>

\* ------------------------------------------------------------------------
\* Characters
\* ------------------------------------------------------------------------
Digits == <<"0", "1", "2", "3", "4", "5", "6", "7", "8", "9">>

UpperLetters == <<"A", "B", "C", "D", "E", "F", "G", "H", "I", "J", "K", "L", "M",
                  "N", "O", "P", "Q", "R", "S", "T", "U", "V", "W", "X", "Y", "Z">>

LowerLetters == <<"a", "b", "c", "d", "e", "f", "g", "h", "i", "j", "k", "l", "m",
                  "n", "o", "p", "q", "r", "s", "t", "u", "v", "w", "x", "y", "z">>

IsDigit(c) == \E i \in 1..Len(Digits) : Digits[i] = c

DigitVal(c) == (CHOOSE i \in 1..Len(Digits) : Digits[i] = c) - 1

IsSpace(c) == c \in {" ", "\n", "\r", "\t"}

LowerChar(c) ==
    IF \E i \in 1..Len(UpperLetters) : UpperLetters[i] = c
    THEN LowerLetters[CHOOSE i \in 1..Len(UpperLetters) : UpperLetters[i] = c]
    ELSE c

\* ------------------------------------------------------------------------
\* str methods
\* ------------------------------------------------------------------------
Lower(s) == [i \in 1..Len(s) |-> LowerChar(s[i])]

RECURSIVE LStrip(_)
LStrip(s) == IF s # <<>> /\ IsSpace(Head(s)) THEN LStrip(Tail(s)) ELSE s

RECURSIVE RStrip(_)
RStrip(s) ==
    IF s # <<>> /\ IsSpace(s[Len(s)]) THEN RStrip(SubSeq(s, 1, Len(s) - 1)) ELSE s

Strip(s) == RStrip(LStrip(s))

StartsWith(s, p) == Len(p) <= Len(s) /\ SubSeq(s, 1, Len(p)) = p

\* Python's "sub in s"
Contains(s, sub) ==
    \E i \in 0..(Len(s) - Len(sub)) : SubSeq(s, i + 1, i + Len(sub)) = sub

\* s.replace(old, new), old non-empty
RECURSIVE Replace(_, _, _)
Replace(s, old, new) ==
    IF s = <<>> THEN <<>>
    ELSE IF StartsWith(s, old)
         THEN new \o Replace(SubSeq(s, Len(old) + 1, Len(s)), old, new)
         ELSE <<Head(s)>> \o Replace(Tail(s), old, new)

RECURSIVE SqueezeSpaces(_)
SqueezeSpaces(s) ==
    IF s = <<>> THEN <<>>
    ELSE IF IsSpace(Head(s)) THEN <<" ">> \o SqueezeSpaces(LStrip(s))
         ELSE <<Head(s)>> \o SqueezeSpaces(Tail(s))

\* " ".join(s.split())
JoinSplit(s) == SqueezeSpaces(Strip(s))

\* sep.join(parts)
RECURSIVE Join(_, _)
Join(sep, parts) ==
    IF parts = <<>> THEN <<>>
    ELSE IF Len(parts) = 1 THEN parts[1]
         ELSE parts[1] \o sep \o Join(sep, Tail(parts))

\* s.split(sep)[0], sep non-empty
RECURSIVE SplitFirst(_, _)
SplitFirst(s, sep) ==
    IF s = <<>> \/ StartsWith(s, sep) THEN <<>>
    ELSE <<Head(s)>> \o SplitFirst(Tail(s), sep)

\* the longest prefix of s whose characters all satisfy the test
RECURSIVE DigitRun(_)
DigitRun(s) ==
    IF s # <<>> /\ IsDigit(Head(s)) THEN <<Head(s)>> \o DigitRun(Tail(s)) ELSE <<>>

RECURSIVE DigitCommaRun(_)
DigitCommaRun(s) ==
    IF s # <<>> /\ (IsDigit(Head(s)) \/ Head(s) = ",")
    THEN <<Head(s)>> \o DigitCommaRun(Tail(s)) ELSE <<>>

Drop(s, n) == SubSeq(s, n + 1, Len(s))

Min(a, b) == IF a <= b THEN a ELSE b

\* ------------------------------------------------------------------------
\* Numbers: float(), repr(float) and the ",.2f" format
\* A parsed number is [ok, neg, ip, fr]: sign, integer part, fraction digits.
\* ------------------------------------------------------------------------
RECURSIVE DigitsToNat(_)
DigitsToNat(ds) ==
    IF ds = <<>> THEN 0
    ELSE 10 * DigitsToNat(SubSeq(ds, 1, Len(ds) - 1)) + DigitVal(ds[Len(ds)])

RECURSIVE NatToDigits(_)
NatToDigits(n) ==
    IF n < 10 THEN <<Digits[n + 1]>>
    ELSE NatToDigits(n \div 10) \o <<Digits[(n % 10) + 1]>>

BadFloat == [ok |-> FALSE, neg |-> FALSE, ip |-> 0, fr |-> <<>>]

\* float(s) for the decimal forms  [sign] digits [. digits*]  and  [sign] . digits ;
\* every other text is a ValueError.  (Exponent, underscore, inf and nan
\* literals do not occur in the cell texts of this model.)
FloatParse(s0) ==
    LET s == Strip(s0)
        neg == s # <<>> /\ Head(s) = "-"
        u == IF s # <<>> /\ Head(s) \in {"-", "+"} THEN Tail(s) ELSE s
        ipd == DigitRun(u)
        r == Drop(u, Len(ipd))
        hasDot == r # <<>> /\ Head(r) = "."
        frd == IF hasDot THEN DigitRun(Tail(r)) ELSE <<>>
        rest == IF hasDot THEN Drop(r, 1 + Len(frd)) ELSE r
    IN  IF rest = <<>> /\ (ipd # <<>> \/ frd # <<>>)
        THEN [ok |-> TRUE, neg |-> neg, ip |-> DigitsToNat(ipd), fr |-> frd]
        ELSE BadFloat

RECURSIVE StripTrailingZeros(_)
StripTrailingZeros(ds) ==
    IF ds # <<>> /\ ds[Len(ds)] = "0"
    THEN StripTrailingZeros(SubSeq(ds, 1, Len(ds) - 1)) ELSE ds

\* repr(float): "15.0", "12.5"
FloatRepr(n) ==
    LET f == StripTrailingZeros(n.fr)
    IN  (IF n.neg THEN <<"-">> ELSE <<>>) \o NatToDigits(n.ip) \o <<".">>
        \o (IF f = <<>> THEN <<"0">> ELSE f)

\* the value rounded to hundredths: fraction digits beyond the second round
\* to nearest (half to even; no cell text of this model has such digits)
Hundredths(n) ==
    LET f2 == SubSeq(n.fr \o <<"0", "0">>, 1, 2)
        more == Drop(n.fr, 2)
        base == 100 * n.ip + DigitsToNat(f2)
        tail == StripTrailingZeros(more)
        up == /\ tail # <<>>
              /\ \/ DigitVal(tail[1]) > 5
                 \/ DigitVal(tail[1]) = 5 /\ (Len(tail) > 1 \/ base % 2 = 1)
    IN  IF up THEN base + 1 ELSE base

RECURSIVE GroupThousands(_)
GroupThousands(ds) ==
    IF Len(ds) <= 3 THEN ds
    ELSE GroupThousands(SubSeq(ds, 1, Len(ds) - 3)) \o <<",">>
         \o SubSeq(ds, Len(ds) - 2, Len(ds))

\* f"{n:,.2f}"
Format2f(n) ==
    LET h == Hundredths(n)
        c == h % 100
    IN  (IF n.neg THEN <<"-">> ELSE <<>>) \o GroupThousands(NatToDigits(h \div 100))
        \o <<".", Digits[(c \div 10) + 1], Digits[(c % 10) + 1]>>

\* ------------------------------------------------------------------------
\* Cells
\* ------------------------------------------------------------------------
NoneCell == [kind |-> "none", num |-> 0, str |-> <<>>]

NaNCell == [kind |-> "nan", num |-> 0, str |-> <<>>]

StrCell(s) == [kind |-> "str", num |-> 0, str |-> s]

FloatCell(h) == [kind |-> "float", num |-> h, str |-> <<>>]

EmptyCell == StrCell(<<>>)

\* float(val) of a numeric cell
CellFloat(c) ==
    [ok |-> TRUE, neg |-> FALSE, ip |-> c.num \div 100,
     fr |-> <<Digits[((c.num % 100) \div 10) + 1], Digits[(c.num % 10) + 1]>>]

\* str(val)
Str(c) ==
    CASE c.kind = "str" -> c.str
      [] c.kind = "float" -> FloatRepr(CellFloat(c))
      [] c.kind = "nan" -> <<"n", "a", "n">>
      [] OTHER -> <<"N", "o", "n", "e">>

\* bool(val)
Truthy(c) ==
    CASE c.kind = "str" -> c.str # <<>>
      [] c.kind = "float" -> c.num # 0
      [] c.kind = "nan" -> TRUE
      [] OTHER -> FALSE

IsNumber(c) == c.kind \in {"float", "nan"}

\* ------------------------------------------------------------------------
\* Keywords of the header tests (_infer_column_indices, _is_header_row)
\* ------------------------------------------------------------------------
Kw_part == <<"p", "a", "r", "t">>

Kw_number == <<"n", "u", "m", "b", "e", "r">>

Kw_no == <<"n", "o">>

Kw_nr == <<"n", "r">>

Kw_series == <<"s", "e", "r", "i", "e", "s">>

Kw_desc == <<"d", "e", "s", "c">>

Kw_product == <<"p", "r", "o", "d", "u", "c", "t">>

Kw_price == <<"p", "r", "i", "c", "e">>

Kw_unit == <<"u", "n", "i", "t">>

Kw_discount == <<"d", "i", "s", "c", "o", "u", "n", "t">>

Kw_disc == <<"d", "i", "s", "c">>

Kw_description == <<"d", "e", "s", "c", "r", "i", "p", "t", "i", "o", "n">>

\* ------------------------------------------------------------------------
\* Original pipeline: text and cell normalisation
\* ------------------------------------------------------------------------
\* _clean_text: line breaks become "; ", whitespace collapses
_clean_text(s) ==
    IF s = <<>> THEN <<>>
    ELSE JoinSplit(Replace(Replace(s, <<"\n">>, <<";", " ">>), <<"\r">>, <<" ">>))

\* _clean_part_number: strip, collapse internal whitespace
_clean_part_number(s) ==
    IF s = <<>> THEN <<>> ELSE JoinSplit(Strip(s))

\* RE_PRICE.search(s): group(1) of the leftmost match of \$\s*([\d,]+(?:\.\d{2})?)
RECURSIVE RE_PRICE_search(_)
RE_PRICE_search(s) ==
    IF s = <<>> THEN NoneStr
    ELSE IF Head(s) = "$"
         THEN LET t == LStrip(Tail(s))
                  run == DigitCommaRun(t)
                  r == Drop(t, Len(run))
                  frac == IF Len(r) >= 3 /\ r[1] = "." /\ IsDigit(r[2]) /\ IsDigit(r[3])
                          THEN SubSeq(r, 1, 3) ELSE <<>>
              IN  IF run # <<>> THEN run \o frac ELSE RE_PRICE_search(Tail(s))
         ELSE RE_PRICE_search(Tail(s))

\* the number-cell branch of _extract_price_from_cell
PriceOfNumber(val) == Format2f(CellFloat(val))

\* _extract_price_from_cell: the price text of a cell, or None
_extract_price_from_cell(val) ==
    IF val.kind \in {"none", "nan"} THEN NoneStr
    ELSE IF val.kind = "float" THEN PriceOfNumber(val)
    ELSE LET s == Strip(Str(val))
             m == RE_PRICE_search(s)
             n == FloatParse(Replace(m, <<",">>, <<>>))
             b == FloatParse(Strip(Replace(Replace(s, <<",">>, <<>>), <<"$">>, <<>>)))
         IN  IF m # NoneStr
             THEN (IF n.ok THEN <<"$">> \o Format2f(n) ELSE <<"$">> \o m)
             ELSE IF b.ok THEN <<"$">> \o Format2f(b) ELSE NoneStr

\* one attempt of (\d+(?:\.\d+)?)\s*% at the start of t: group(1) or None
DiscountMatchAt(t) ==
    LET ip == DigitRun(t)
        r == Drop(t, Len(ip))
        fr == IF r # <<>> /\ Head(r) = "." THEN DigitRun(Tail(r)) ELSE <<>>
        grp == IF fr # <<>> THEN ip \o <<".">> \o fr ELSE ip
        after == LStrip(Drop(t, Len(grp)))
    IN  IF ip # <<>> /\ after # <<>> /\ Head(after) = "%" THEN grp ELSE NoneStr

\* RE_DISCOUNT.search(s): group(1) of the leftmost match
RECURSIVE RE_DISCOUNT_search(_)
RE_DISCOUNT_search(s) ==
    IF s = <<>> THEN NoneStr
    ELSE IF DiscountMatchAt(s) # NoneStr THEN DiscountMatchAt(s)
         ELSE RE_DISCOUNT_search(Tail(s))

\* _extract_discount_from_cell: the discount text of a cell, or None
_extract_discount_from_cell(val) ==
    IF val.kind \in {"none", "nan"} THEN NoneStr
    ELSE LET s == Strip(Str(val))
             m == RE_DISCOUNT_search(s)
             b == FloatParse(Strip(Replace(Replace(s, <<"%">>, <<>>), <<",">>, <<>>)))
         IN  IF m # NoneStr THEN m \o <<"%">>
             ELSE IF b.ok THEN FloatRepr(b) \o <<"%">> ELSE NoneStr

\* re.sub(r"[^\d]", "", s)
RECURSIVE OnlyDigits(_)
OnlyDigits(s) ==
    IF s = <<>> THEN <<>>
    ELSE (IF IsDigit(Head(s)) THEN <<Head(s)>> ELSE <<>>) \o OnlyDigits(Tail(s))

\* RE_SERIES_NUM.match(s) on a stripped s: two to four digits and nothing else
RE_SERIES_NUM_match(s) == Len(s) \in 2..4 /\ DigitRun(s) = s

\* _series_numeric_only
_series_numeric_only(s0) ==
    IF s0 = <<>> THEN <<>>
    ELSE LET s == Strip(s0)
         IN  IF RE_SERIES_NUM_match(s) THEN s ELSE OnlyDigits(s)

\* ------------------------------------------------------------------------
\* Original pipeline: column roles
\* A role mapping is [part, series, description, price, discount], each a
\* zero-based column index or None.  NoIndices stands for the dict of
\* _infer_column_indices before any assignment and for "indices = None" of
\* parse_pdf: once parse_pdf has inferred a mapping its price and discount
\* are set, so an inferred mapping never equals NoIndices.
\* ------------------------------------------------------------------------
NoIndices ==
    [part |-> None, series |-> None, description |-> None,
     price |-> None, discount |-> None]

\* h of _infer_column_indices: the lowered, stripped header texts
HeaderTexts(header_row) ==
    [i \in 1..Len(header_row) |->
        IF header_row[i].kind = "none" THEN <<>>
        ELSE Strip(Lower(Str(header_row[i])))]

\* the tests of the if/elif chain, one per role
IsPartHeader(cell) ==
    /\ Contains(cell, Kw_part)
    /\ (Contains(cell, Kw_number) \/ Contains(cell, Kw_no) \/ Contains(cell, Kw_nr))

IsSeriesHeader(cell) == Contains(cell, Kw_series)

IsDescriptionHeader(cell) == Contains(cell, Kw_desc) \/ Contains(cell, Kw_product)

IsPriceHeader(cell, h) ==
    \/ Contains(cell, Kw_price)
    \/ (Contains(cell, Kw_unit) /\ Contains(Join(<<" ">>, h), Kw_price))

IsDiscountHeader(cell) == Contains(cell, Kw_discount) \/ Contains(cell, Kw_disc)

\* variant: a role keeps the first column assigned to it
AssignRoleOnce(h, i, ind) ==
    LET cell == h[i + 1]
    IN  IF IsPartHeader(cell)
        THEN (IF ind.part = None THEN [ind EXCEPT !.part = i] ELSE ind)
        ELSE IF IsSeriesHeader(cell)
        THEN (IF ind.series = None THEN [ind EXCEPT !.series = i] ELSE ind)
        ELSE IF IsDescriptionHeader(cell)
        THEN (IF ind.description = None THEN [ind EXCEPT !.description = i] ELSE ind)
        ELSE IF IsPriceHeader(cell, h)
        THEN (IF ind.price = None THEN [ind EXCEPT !.price = i] ELSE ind)
        ELSE IF IsDiscountHeader(cell)
        THEN (IF ind.discount = None THEN [ind EXCEPT !.discount = i] ELSE ind)
        ELSE ind

\* one iteration of the loop over enumerate(h): column i (zero-based)
AssignRole(h, i, ind) ==
    LET cell == h[i + 1]
    IN  IF IsPartHeader(cell) THEN [ind EXCEPT !.part = i]
        ELSE IF IsSeriesHeader(cell) THEN [ind EXCEPT !.series = i]
        ELSE IF IsDescriptionHeader(cell) THEN [ind EXCEPT !.description = i]
        ELSE IF IsPriceHeader(cell, h) THEN [ind EXCEPT !.price = i]
        ELSE IF IsDiscountHeader(cell) THEN [ind EXCEPT !.discount = i]
        ELSE ind

RECURSIVE InferLoop(_, _, _)
InferLoop(h, i, ind) ==
    IF i >= Len(h) THEN ind ELSE InferLoop(h, i + 1, AssignRole(h, i, ind))

\* _infer_column_indices
_infer_column_indices(header_row) ==
    LET h == HeaderTexts(header_row)
        ind == InferLoop(h, 0, NoIndices)
        p == IF ind.price = None /\ Len(h) >= 4 THEN Len(h) - 2 ELSE ind.price
        d == IF ind.discount = None /\ Len(h) >= 5 THEN Len(h) - 1 ELSE ind.discount
    IN  [ind EXCEPT !.price = p, !.discount = d]

\* _is_header_row
_is_header_row(row) ==
    IF row = <<>> THEN FALSE
    ELSE LET Keep(c) == Truthy(c)
             kept == SelectSeq(row, Keep)
             combined == Join(<<" ">>, [i \in 1..Len(kept) |-> Lower(Str(kept[i]))])
         IN  /\ Contains(combined, Kw_part)
             /\ (Contains(combined, Kw_price) \/ Contains(combined, Kw_description))

\* row[i] if i is not None and i < len(row) else None
CellAt(row, i) == IF i = None \/ i >= Len(row) THEN NoneCell ELSE row[i + 1]

\* "v" of _infer_column_indices_from_rows: str(cell).strip(), "" for None
CellText(cell) == IF cell.kind = "none" THEN <<>> ELSE Strip(Str(cell))

\* the test that adds to price_counts[i]
CountsAsPrice(cell) ==
    \/ _extract_price_from_cell(cell) # NoneStr
    \/ (CellText(cell) # <<>> /\ RE_PRICE_search(CellText(cell)) # NoneStr)

\* the test that adds to discount_counts[i]
CountsAsDiscount(cell) ==
    \/ _extract_discount_from_cell(cell) # NoneStr
    \/ (CellText(cell) # <<>> /\ RE_DISCOUNT_search(CellText(cell)) # NoneStr)

\* price_counts: per zero-based column, the rows whose cell counts as a price
price_counts(rows, ncols) ==
    [i \in 0..(ncols - 1) |->
        Cardinality({k \in 1..Len(rows) :
                        i < Len(rows[k]) /\ CountsAsPrice(rows[k][i + 1])})]

\* discount_counts: per zero-based column, the rows whose cell counts as a
\* discount
discount_counts(rows, ncols) ==
    [i \in 0..(ncols - 1) |->
        Cardinality({k \in 1..Len(rows) :
                        i < Len(rows[k]) /\ CountsAsDiscount(rows[k][i + 1])})]

\* max(range(ncols), key=counts): the first column with the highest count,
\* or the default when every count is zero
ArgMaxOr(counts, ncols, default) ==
    IF \A i \in 0..(ncols - 1) : counts[i] = 0 THEN default
    ELSE CHOOSE i \in 0..(ncols - 1) :
            /\ \A j \in 0..(ncols - 1) : counts[j] <= counts[i]
            /\ \A j \in 0..(i - 1) : counts[j] < counts[i]

\* _infer_column_indices_from_rows (no caller in the script)
_infer_column_indices_from_rows(rows) ==
    LET Longest(S) == CHOOSE n \in S : \A m \in S : m <= n
        ncols == Longest({Len(rows[k]) : k \in 1..Len(rows)})
    IN  IF rows = <<>>
        THEN [part |-> 0, series |-> 1, description |-> 2, price |-> 3, discount |-> 4]
        ELSE IF ncols < 3
        THEN [part |-> 0, series |-> None, description |-> 1, price |-> 2,
              discount |-> None]
        ELSE [part |-> 0,
              series |-> IF ncols >= 2 THEN 1 ELSE None,
              description |-> IF ncols >= 3 THEN 2 ELSE 1,
              price |-> ArgMaxOr(price_counts(rows, ncols), ncols,
                                 ncols - 2),
              discount |-> ArgMaxOr(discount_counts(rows, ncols), ncols,
                                    ncols - 1)]

\* _row_has_price
_row_has_price(row, price_idx) ==
    _extract_price_from_cell(CellAt(row, price_idx)) # NoneStr

\* variant: a discount alone makes a series-discount row
HasDiscountOnly(row, indices) ==
    _extract_discount_from_cell(CellAt(row, indices.discount)) # NoneStr

\* _row_looks_like_series_discount
_row_looks_like_series_discount(row, indices) ==
    LET has_disc == _extract_discount_from_cell(CellAt(row, indices.discount)) # NoneStr
        has_price == _extract_price_from_cell(CellAt(row, indices.price)) # NoneStr
    IN  has_disc /\ ~has_price

\* get(i) of _normalize_row
get(row, i) ==
    LET v == CellAt(row, i)
    IN  IF v.kind \in {"none", "nan"} THEN <<>> ELSE Strip(Str(v))

\* the series-discount record of _normalize_row
SeriesDiscountRecord(part, series, desc, discount_str) ==
    [PartNumber |-> <<>>,
     Series |-> IF series # <<>> THEN series
                ELSE IF _series_numeric_only(part) # <<>> THEN _series_numeric_only(part)
                ELSE _series_numeric_only(desc),
     Description |-> desc,
     Price |-> <<>>,
     Discount |-> IF discount_str = NoneStr THEN <<>> ELSE discount_str]

\* the product record of _normalize_row
ProductRecord(part, series, desc, price_str, discount_str) ==
    [PartNumber |-> part,
     Series |-> series,
     Description |-> desc,
     Price |-> price_str,
     Discount |-> IF discount_str = NoneStr THEN <<>> ELSE discount_str]

\* _normalize_row: <<record>>, or <<>> for None
_normalize_row(row, indices, is_series_discount) ==
    LET part == _clean_part_number(get(row, indices.part))
        series == _series_numeric_only(get(row, indices.series))
        desc == _clean_text(get(row, indices.description))
        price_str == IF is_series_discount THEN NoneStr
                     ELSE _extract_price_from_cell(CellAt(row, indices.price))
        discount_str == _extract_discount_from_cell(CellAt(row, indices.discount))
    IN  IF is_series_discount
        THEN <<SeriesDiscountRecord(part, series, desc, discount_str)>>
        ELSE IF price_str = NoneStr \/ price_str = <<>> THEN <<>>
        ELSE <<ProductRecord(part, series, desc, price_str, discount_str)>>

\* "while len(row) < 5: row.append('')"
PadRow(row) ==
    IF Len(row) < 5 THEN row \o [i \in 1..(5 - Len(row)) |-> EmptyCell] ELSE row

Max(a, b) == IF a >= b THEN a ELSE b

\* the missing-role defaults parse_pdf applies after an inference
WithDefaults(ind, p, d) ==
    [ind EXCEPT !.price = IF @ = None THEN p ELSE @,
                !.discount = IF @ = None THEN d ELSE @]

\* variant: every header row is read for the column roles again
IndicesPerHeader(row, indices) ==
    IF _is_header_row(row)
    THEN WithDefaults(_infer_column_indices(row), Len(row) - 2, Len(row) - 1)
    ELSE IF indices # NoIndices THEN indices
    ELSE WithDefaults(_infer_column_indices(row),
                      Max(0, Len(row) - 2), Max(0, Len(row) - 1))

\* the value of indices after the header/inference part of one loop iteration
IndicesAfterRow(row, indices) ==
    IF indices # NoIndices THEN indices
    ELSE IF _is_header_row(row)
         THEN WithDefaults(_infer_column_indices(row), Len(row) - 2, Len(row) - 1)
         ELSE WithDefaults(_infer_column_indices(row),
                           Max(0, Len(row) - 2), Max(0, Len(row) - 1))

\* the records one (padded, non-empty) row adds to records
RowRecords(row, indices0) ==
    LET indices == IndicesAfterRow(row, indices0)
        is_series_discount == _row_looks_like_series_discount(row, indices)
    IN  IF _is_header_row(row) THEN <<>>
        ELSE IF ~is_series_discount /\ ~_row_has_price(row, indices.price) THEN <<>>
        ELSE _normalize_row(row, indices, is_series_discount)

\* ------------------------------------------------------------------------
\* Simplified pipeline: one table row
\* ------------------------------------------------------------------------
Kw_Discount == <<"D", "i", "s", "c", "o", "u", "n", "t">>

Kw_SpaceSeries == <<" ", "S", "e", "r", "i", "e", "s">>

Kw_br == <<"<", "b", "r", ">">>

\* the tail of (\d{3})\s*Series.*?([\d.]+)% after "Series": group(2) of the
\* first run of digits and dots that a "%" follows, or None
RECURSIVE PercentAfter(_)
PercentAfter(t) ==
    LET IsNumChar(c) == IsDigit(c) \/ c = "."
        RECURSIVE Run(_)
        Run(u) == IF u # <<>> /\ IsNumChar(Head(u)) THEN <<Head(u)>> \o Run(Tail(u))
                  ELSE <<>>
        run == Run(t)
        after == Drop(t, Len(run))
    IN  IF t = <<>> THEN NoneStr
        ELSE IF run # <<>> /\ after # <<>> /\ Head(after) = "%" THEN run
        ELSE PercentAfter(Tail(t))

\* RE_SERIES_DISCOUNT.search(s): <<group(1), group(2)>> of the leftmost match,
\* or <<>>
RECURSIVE RE_SERIES_DISCOUNT_search(_)
RE_SERIES_DISCOUNT_search(s) ==
    LET three == Len(s) >= 3 /\ IsDigit(s[1]) /\ IsDigit(s[2]) /\ IsDigit(s[3])
        t == LStrip(Drop(s, 3))
        word == StartsWith(Lower(t), Kw_series)
        pct == PercentAfter(Drop(t, Len(Kw_series)))
    IN  IF s = <<>> THEN <<>>
        ELSE IF three /\ word /\ pct # NoneStr THEN <<SubSeq(s, 1, 3), pct>>
        ELSE RE_SERIES_DISCOUNT_search(Tail(s))

\* "x or ''" of a cell
OrEmpty(c) == IF Truthy(c) THEN c ELSE EmptyCell

\* table[0] names a part column: the header test of the simplified parse_pdf
SimpleIsHeader(row) ==
    /\ row # <<>>
    /\ \E i \in 1..Len(row) :
          Truthy(row[i]) /\ Contains(Lower(Str(row[i])), Kw_part)

\* the price text of a product record of the simplified parse_pdf
SimplePrice(price) == IF StartsWith(price, <<"$">>) THEN price ELSE <<"$">> \o price

\* the row is skipped for want of a price (the "continue" after the price test)
SimpleSkipsUnpriced(price_raw) == Strip(price_raw.str) = <<>>

\* one row of the simplified parse_pdf:
\* [raises |-> an AttributeError escapes, recs |-> the records appended]
SimpleRow(row) ==
    IF row = <<>> \/ Len(row) < 3 THEN [raises |-> FALSE, recs |-> <<>>]
    ELSE
    LET part_raw == OrEmpty(row[1])
        desc_raw == OrEmpty(row[2])
        price_raw == OrEmpty(row[3])
        part == Replace(Strip(part_raw.str), <<"\n">>, <<"/">>)
        desc == Replace(Replace(Strip(desc_raw.str), <<"\n">>, <<";", " ">>),
                        Kw_br, <<";", " ">>)
        price == Strip(price_raw.str)
        m == RE_SERIES_DISCOUNT_search(desc)
        clean_desc == Strip(Replace(SplitFirst(desc, Kw_Discount),
                                    m[1] \o Kw_SpaceSeries, <<>>))
    IN  IF price_raw.kind # "str" THEN [raises |-> TRUE, recs |-> <<>>]
        ELSE IF SimpleSkipsUnpriced(price_raw) THEN [raises |-> FALSE, recs |-> <<>>]
        ELSE IF part_raw.kind # "str" \/ desc_raw.kind # "str"
             THEN [raises |-> TRUE, recs |-> <<>>]
        ELSE IF Contains(Lower(desc), Kw_discount) /\ Contains(desc, <<"%">>) /\ m # <<>>
             THEN [raises |-> FALSE,
                   recs |-> <<[PartNumber |-> <<>>, Series |-> m[1],
                               Description |-> clean_desc, Price |-> <<>>,
                               Discount |-> m[2] \o <<"%">>]>>]
        ELSE [raises |-> FALSE,
              recs |-> <<[PartNumber |-> part, Series |-> <<>>, Description |-> desc,
                          Price |-> SimplePrice(price), Discount |-> <<>>]>>]

\* ------------------------------------------------------------------------
\* Metadata: the regular expressions over page text
\* ------------------------------------------------------------------------
Kw_quote == <<"q", "u", "o", "t", "e">>

Kw_quotation == <<"q", "u", "o", "t", "a", "t", "i", "o", "n">>

Kw_q == <<"q">>

Kw_date == <<"d", "a", "t", "e">>

Kw_issued == <<"i", "s", "s", "u", "e", "d">>

Kw_valid == <<"v", "a", "l", "i", "d">>

Kw_expir == <<"e", "x", "p", "i", "r">>

Kw_expire == <<"e", "x", "p", "i", "r", "e">>

Kw_expires == <<"e", "x", "p", "i", "r", "e", "s">>

Kw_customer == <<"c", "u", "s", "t", "o", "m", "e", "r">>

Kw_sold == <<"s", "o", "l", "d">>

Kw_bill == <<"b", "i", "l", "l">>

Kw_to == <<"t", "o">>

IsAlnumDash(c) ==
    \/ IsDigit(c)
    \/ c = "-"
    \/ \E i \in 1..Len(LowerLetters) : LowerLetters[i] = LowerChar(c)

RECURSIVE AlnumDashRun(_)
AlnumDashRun(s) ==
    IF s # <<>> /\ IsAlnumDash(Head(s)) THEN <<Head(s)>> \o AlnumDashRun(Tail(s))
    ELSE <<>>

\* an optional character c at the head of t
SkipOpt(t, c) == IF t # <<>> /\ Head(t) = c THEN Tail(t) ELSE t

\* \s*#?\s*:?\s*([A-Z0-9\-]+) at the start of t: group(1) or None
QuoteTail(t) ==
    LET run == AlnumDashRun(LStrip(SkipOpt(LStrip(SkipOpt(LStrip(t), "#")), ":")))
    IN  IF run # <<>> THEN run ELSE NoneStr

\* (\d{1,2}[/\-]\d{1,2}[/\-]\d{2,4}) at the start of t: group(1) or None
DateAt(t) ==
    LET IsSep(c) == c \in {"/", "-"}
        d1 == DigitRun(t)
        r1 == Drop(t, Len(d1))
        d2 == IF r1 = <<>> THEN <<>> ELSE DigitRun(Tail(r1))
        r2 == IF r1 = <<>> THEN <<>> ELSE Drop(r1, 1 + Len(d2))
        d3 == IF r2 = <<>> THEN <<>> ELSE DigitRun(Tail(r2))
    IN  IF /\ Len(d1) \in 1..2 /\ r1 # <<>> /\ IsSep(Head(r1))
           /\ Len(d2) \in 1..2 /\ r2 # <<>> /\ IsSep(Head(r2))
           /\ Len(d3) >= 2
        THEN d1 \o <<Head(r1)>> \o d2 \o <<Head(r2)>> \o SubSeq(d3, 1, Min(4, Len(d3)))
        ELSE NoneStr

\* \s*:?\s*(date) at the start of t
DateTail(t) == DateAt(LStrip(SkipOpt(LStrip(t), ":")))

\* \s*:?\s*(.+?)(?:\n|$) at the start of t: the rest of the line; when only
\* white space (or only the colon) is left, backtracking yields its last
\* character
CustomerTail(t) ==
    LET a == LStrip(t)
        b == SkipOpt(a, ":")
        c == LStrip(b)
        line == <<Head(c)>> \o SplitFirst(Tail(c), <<"\n">>)
    IN  IF c # <<>> THEN line
        ELSE IF b # <<>> THEN <<b[Len(b)]>>
        ELSE IF a # <<>> THEN <<":">>
        ELSE IF t # <<>> THEN <<t[Len(t)]>>
        ELSE NoneStr

\* which tail follows the keyword
TailOf(kind, t) ==
    CASE kind = "quote" -> QuoteTail(t)
      [] kind = "date" -> DateTail(t)
      [] OTHER -> CustomerTail(t)

\* a keyword <<w1, w2>> stands for w1\s*w2; the text after it at the start of
\* t, or None
AfterKeyword(t, kw) ==
    IF ~StartsWith(Lower(t), kw[1]) THEN NoneStr
    ELSE IF Len(kw) = 1 THEN Drop(t, Len(kw[1]))
    ELSE LET u == LStrip(Drop(t, Len(kw[1])))
         IN  IF StartsWith(Lower(u), kw[2]) THEN Drop(u, Len(kw[2])) ELSE NoneStr

\* the alternatives of (?:k1|k2|...) tried in order at the start of t
RECURSIVE MatchAt(_, _, _)
MatchAt(t, alts, kind) ==
    IF alts = <<>> THEN NoneStr
    ELSE LET rest == AfterKeyword(t, Head(alts))
             g == IF rest = NoneStr THEN NoneStr ELSE TailOf(kind, rest)
         IN  IF g # NoneStr THEN g ELSE MatchAt(t, Tail(alts), kind)

\* pattern.search(s): group(1) of the leftmost match, or None
RECURSIVE Search(_, _, _)
Search(s, alts, kind) ==
    IF s = <<>> THEN NoneStr
    ELSE IF MatchAt(s, alts, kind) # NoneStr THEN MatchAt(s, alts, kind)
    ELSE Search(Tail(s), alts, kind)

\* RE_QUOTE_NUMBER of the original script
RE_QUOTE_NUMBER_search(s) == Search(s, <<<<Kw_quote>>, <<Kw_quotation>>>>, "quote")

\* RE_QUOTE_NUMBER of the simplified script
Simple_RE_QUOTE_NUMBER_search(s) ==
    Search(s, <<<<Kw_quote>>, <<Kw_quotation>>, <<Kw_q>>>>, "quote")

RE_DATE_search(s) == Search(s, <<<<Kw_date>>, <<Kw_issued>>>>, "date")

RE_EXPIRATION_search(s) ==
    Search(s, <<<<Kw_valid>>, <<Kw_expir>>, <<Kw_expires>>, <<Kw_expire>>>>, "date")

RE_CUSTOMER_search(s) ==
    Search(s, <<<<Kw_customer>>, <<Kw_sold, Kw_to>>, <<Kw_bill, Kw_to>>>>, "customer")

\* ------------------------------------------------------------------------
\* Metadata: page text.  What extract_text() does on a page is
\* [raises, text]; text is NoneStr when the page has no text.
\* ------------------------------------------------------------------------
NoMetadata ==
    [quote_number |-> NoneStr, date |-> NoneStr, expiration_date |-> NoneStr,
     customer |-> NoneStr]

\* m.group(1).strip() if m else None
StripOrNone(g) == IF g = NoneStr THEN NoneStr ELSE Strip(g)

\* the texts list of _extract_metadata: the loop over [0, len(pdf.pages) - 1]
\* inside one try block; the first exception ends the loop
CollectTexts(num_pages, first, last) ==
    LET Kept(p) == IF p.text = NoneStr \/ p.text = <<>> THEN <<>> ELSE <<p.text>>
    IN  IF num_pages = 0 \/ first.raises THEN <<>>
        ELSE IF last.raises THEN Kept(first)
        ELSE Kept(first) \o Kept(last)

\* _extract_metadata of the original script
_extract_metadata(num_pages, first, last) ==
    LET full == Join(<<"\n">>, CollectTexts(num_pages, first, last))
        c == RE_CUSTOMER_search(full)
    IN  [quote_number |-> StripOrNone(RE_QUOTE_NUMBER_search(full)),
         date |-> StripOrNone(RE_DATE_search(full)),
         expiration_date |-> StripOrNone(RE_EXPIRATION_search(full)),
         customer |-> IF c = NoneStr THEN NoneStr ELSE _clean_text(c)]

\* extract_metadata of the simplified script: the first page only
extract_metadata(num_pages, first) ==
    LET text == IF first.text = NoneStr THEN <<>> ELSE first.text
    IN  [NoMetadata EXCEPT !.quote_number =
            IF num_pages = 0 \/ first.raises THEN NoneStr
            ELSE StripOrNone(Simple_RE_QUOTE_NUMBER_search(text))]

\* ------------------------------------------------------------------------
\* The cell texts and table rows the documents of the model are made of
\* ------------------------------------------------------------------------
T_WagoPart ==
    <<"W", "A", "G", "O", " ", "P", "a", "r", "t", " ", "#">>

T_Description ==
    <<"D", "e", "s", "c", "r", "i", "p", "t", "i", "o", "n">>

T_Price ==
    <<"P", "r", "i", "c", "e">>

T_PartNo ==
    <<"P", "a", "r", "t", " ", "N", "o">>

T_Series ==
    <<"S", "e", "r", "i", "e", "s">>

T_ListPrice ==
    <<"L", "i", "s", "t", " ", "P", "r", "i", "c", "e">>

T_NetPrice ==
    <<"N", "e", "t", " ", "P", "r", "i", "c", "e">>

T_Discount ==
    <<"D", "i", "s", "c", "o", "u", "n", "t">>

T_750_500 ==
    <<"7", "5", "0", "-", "5", "0", "0">>

T_Module8 ==
    <<"8", "-", "C", "h", "a", "n", "n", "e", "l", " ", "M", "o", "d", "u",
      "l", "e">>

T_125_00 ==
    <<"1", "2", "5", ".", "0", "0">>

T_221_412 ==
    <<"2", "2", "1", "-", "4", "1", "2">>

T_221 ==
    <<"2", "2", "1">>

T_Connector ==
    <<"S", "p", "l", "i", "c", "i", "n", "g", "\n", "C", "o", "n", "n", "e",
      "c", "t", "o", "r">>

T_1500 ==
    <<"$", "1", ",", "5", "0", "0", ".", "0", "0">>

T_1234_5 ==
    <<"$", " ", "1", ",", "2", "3", "4", ".", "5">>

T_10pct ==
    <<"1", "0", "%">>

T_SeriesDiscount ==
    <<"S", "e", "r", "i", "e", "s", " ", "d", "i", "s", "c", "o", "u", "n",
      "t">>

T_VolumeRebate ==
    <<"V", "o", "l", "u", "m", "e", " ", "r", "e", "b", "a", "t", "e">>

T_5pct ==
    <<"5", " ", "%">>

T_750_501 ==
    <<"7", "5", "0", "-", "5", "0", "1">>

T_Module ==
    <<"M", "o", "d", "u", "l", "e">>

T_Combined ==
    <<"2", "8", "1", " ", "S", "e", "r", "i", "e", "s", " ", "V", "o", "l",
      "u", "m", "e", " ", "D", "i", "s", "c", "o", "u", "n", "t", " ", "1",
      "5", "%">>

\* ["WAGO Part #", "Description", "Price"]
H_Wago == <<StrCell(T_WagoPart), StrCell(T_Description), StrCell(T_Price)>>

\* ["Part No", "Series", "Description", "List Price", "Net Price", "Discount"]
H_Full ==
    <<StrCell(T_PartNo), StrCell(T_Series), StrCell(T_Description),
      StrCell(T_ListPrice), StrCell(T_NetPrice), StrCell(T_Discount)>>

\* ["750-500", "8-Channel Module", "125.00"]
R_Module == <<StrCell(T_750_500), StrCell(T_Module8), StrCell(T_125_00)>>

\* ["221-412", "221", "Splicing\nConnector", "$1,500.00", "$ 1,234.5", "10%"]
R_Connector ==
    <<StrCell(T_221_412), StrCell(T_221), StrCell(T_Connector),
      StrCell(T_1500), StrCell(T_1234_5), StrCell(T_10pct)>>

\* [None, "281", "Series discount", "", "", "15%"]
\* ["", "", "Volume rebate", "", NaN, "5 %"]
R_Rebate ==
    <<EmptyCell, EmptyCell, StrCell(T_VolumeRebate),
      EmptyCell, NaNCell, StrCell(T_5pct)>>

\* ["750-501", "Module", 125.0]
R_Numeric == <<StrCell(T_750_501), StrCell(T_Module), FloatCell(12500)>>

\* ["", "281 Series Volume Discount 15%", ""]
R_Combined == <<EmptyCell, StrCell(T_Combined), EmptyCell>>

\* ["", "281 Series Volume Discount 15%", "n/a"]
\* ["750-501", "Module", "125"]
\* ["Notes", "see terms"]
\* []
R_Empty == <<>>

\* the rows a table of the document is made of
Rows ==
    {H_Wago, H_Full, R_Module, R_Connector, R_Rebate, R_Numeric, R_Combined, R_Empty}

T_Unit ==
    <<"U", "n", "i", "t">>

\* the cells a header row given to _infer_column_indices is made of
HeaderCells ==
    {StrCell(T_PartNo), StrCell(T_SeriesDiscount), StrCell(T_Description),
     StrCell(T_ListPrice), StrCell(T_NetPrice), StrCell(T_Unit), StrCell(T_Discount)}

X_Quote ==
    <<"Q", "u", "o", "t", "e", " ", "#", ":", " ", "A", "B", "-", "7", "7",
      "\n", "D", "a", "t", "e", ":", " ", "1", "/", "2", "/", "2", "0", "2",
      "6">>

X_Customer ==
    <<"V", "a", "l", "i", "d", ":", " ", "3", "/", "4", "/", "2", "0", "2",
      "6", "\n", "C", "u", "s", "t", "o", "m", "e", "r", ":", " ", "A", "C",
      "M", "E", " ", "C", "o", "r", "p", "\n", "T", "o", "t", "a", "l">>

\* what extract_text() does on a page
P_None == [raises |-> FALSE, text |-> NoneStr]

P_Empty == [raises |-> FALSE, text |-> <<>>]

P_Raises == [raises |-> TRUE, text |-> NoneStr]

P_Quote == [raises |-> FALSE, text |-> X_Quote]

P_Customer == [raises |-> FALSE, text |-> X_Customer]

PageTexts == {P_None, P_Empty, P_Raises, P_Quote, P_Customer}

\* ------------------------------------------------------------------------
\* The run of main(): state
\* ------------------------------------------------------------------------
VARIABLES
    version,    \* "original" or "simplified": which script runs
    input,      \* the command line: "noarg", "missing", "notpdf" or "ok"
    numPages,   \* len(pdf.pages) of the document
    texts,      \* [first, last]: what extract_text() does on the first and last page
    pc,         \* position of the run
    pageQueue,  \* pages still to visit (page_indices / pdf.pages), zero-based
    fallback,   \* the all-pages scan of the original parse_pdf has started
    tables,     \* the tables found so far, in order: [page, n] (n rows)
    tIdx,       \* index of the current table in tables, zero-based
    rIdx,       \* index of the current row in its table, zero-based
    row,        \* the row most recently taken from the current table
    hdr,        \* history: the row the column roles were last read from
    indices,    \* the role mapping of the original parse_pdf (NoIndices: None)
    records,    \* records / all_rows
    metadata,   \* the metadata dict
    error,      \* the message main() prints to stderr, "" if none
    exitCode,   \* the return value of main(), None while running
    csv,        \* [written, name, rows]: the CSV file of save_csv
    grid        \* the table given to the row loop alone (<<>> in a run of main)

vars ==
    <<version, input, numPages, texts, pc, pageQueue, fallback, tables, tIdx, rIdx,
      row, hdr, indices, records, metadata, error, exitCode, csv, grid>>

NoCsv == [written |-> FALSE, name |-> <<>>, rows |-> <<>>]

\* range(a, b) as a sequence
Range(a, b) == [i \in 1..Max(0, b - a) |-> a + i - 1]

InSeq(x, s) == \E i \in 1..Len(s) : s[i] = x

\* variant: the first scan runs through page 9
PageIndicesThrough9(num_pages) ==
    LET first == IF num_pages > 1 THEN Range(1, Min(10, num_pages)) ELSE <<0>>
    IN  IF num_pages > 1 /\ ~InSeq(num_pages - 1, first)
        THEN Append(first, num_pages - 1) ELSE first

\* page_indices of the original parse_pdf
PageIndices(num_pages) ==
    LET first == IF num_pages > 1 THEN Range(1, Min(9, num_pages)) ELSE <<0>>
    IN  IF num_pages > 1 /\ ~InSeq(num_pages - 1, first)
        THEN Append(first, num_pages - 1) ELSE first

RECURSIVE Sum(_)
Sum(s) == IF s = <<>> THEN 0 ELSE Head(s) + Sum(Tail(s))

\* the rows of all tables found so far
TotalRows(ts) == Sum([i \in 1..Len(ts) |-> ts[i].n])

\* what one page can still hold: lists of tables (row counts) within the bounds
TableLists(maxTables, maxRows) ==
    {ts \in UNION {[1..k -> 0..maxRows] : k \in 0..maxTables} : Sum(ts) <= maxRows}

\* the first and the last page are the same page in a one-page document
TextsFit(n, t) ==
    /\ n <= 1 => t.first = t.last
    /\ n = 0 => t.first = P_None

InitRun ==
    /\ pageQueue = <<>>
    /\ fallback = FALSE
    /\ tables = <<>>
    /\ tIdx = 0
    /\ rIdx = 0
    /\ hdr = <<>>
    /\ indices = NoIndices
    /\ records = <<>>
    /\ metadata = NoMetadata
    /\ error = ""
    /\ exitCode = None
    /\ csv = NoCsv

Init ==
    /\ version \in {"original", "simplified"}
    /\ input \in {"noarg", "missing", "notpdf", "ok"}
    /\ numPages \in 0..MaxPages
    /\ texts = IF numPages = 0 THEN [first |-> P_None, last |-> P_None]
               ELSE [first |-> P_Quote, last |-> P_Quote]
    /\ pc = "start"
    /\ row = <<>>
    /\ grid = <<>>
    /\ InitRun

\* main() returns 1 with a message on stderr
Fail(msg) ==
    /\ pc' = "done"
    /\ error' = msg
    /\ exitCode' = 1

\* the metadata parse_pdf reads once the document is open
MetadataOf(v, n, t) ==
    IF v = "original" THEN _extract_metadata(n, t.first, t.last)
    ELSE extract_metadata(n, t.first)

\* main() up to the first page: the argument check, the checks at the head of
\* parse_pdf, pdfplumber.open, the metadata
Open ==
    /\ pc = "start"
    /\ IF input = "noarg" THEN Fail("Usage") /\ UNCHANGED <<pageQueue, metadata>>
       ELSE IF input = "missing"
            THEN Fail("PDF not found") /\ UNCHANGED <<pageQueue, metadata>>
       ELSE IF input = "notpdf" /\ version = "original"
            THEN Fail("Not a PDF file") /\ UNCHANGED <<pageQueue, metadata>>
       ELSE /\ metadata' = MetadataOf(version, numPages, texts)
            /\ pc' = IF version = "original" THEN "scan" ELSE "page"
            /\ pageQueue' = IF version = "original" THEN PageIndices(numPages)
                            ELSE Range(0, numPages)
            /\ UNCHANGED <<error, exitCode>>
    /\ UNCHANGED <<grid, version, input, numPages, texts, fallback, tables, tIdx, rIdx, row,
                   hdr, indices, records, csv>>

\* _tables_with_pdfplumber, one page: a page that raises or lies beyond the
\* document adds nothing.  A page of the first scan yields the same on the
\* all-pages scan, which runs only when the first scan found no table.
ScanPage ==
    /\ pc = "scan"
    /\ pageQueue # <<>>
    /\ LET i == Head(pageQueue)
       IN  \E raises \in BOOLEAN :
           \E ts \in TableLists(MaxTables - Len(tables), MaxTotalRows - TotalRows(tables)) :
              /\ (raises \/ i >= numPages) => ts = <<>>
              /\ (fallback /\ InSeq(i, PageIndices(numPages))) => ts = <<>>
              /\ tables' = tables \o [k \in 1..Len(ts) |-> [page |-> i, n |-> ts[k]]]
    /\ pageQueue' = Tail(pageQueue)
    /\ UNCHANGED <<grid, version, input, numPages, texts, pc, fallback, tIdx, rIdx, row, hdr,
                   indices, records, metadata, error, exitCode, csv>>

\* the end of a scan: "if not tables:" starts the scan of all pages, once
ScanDone ==
    /\ pc = "scan"
    /\ pageQueue = <<>>
    /\ IF tables = <<>> /\ ~fallback
       THEN /\ fallback' = TRUE
            /\ pageQueue' = Range(0, numPages)
            /\ pc' = "scan"
       ELSE /\ pc' = "table"
            /\ UNCHANGED <<fallback, pageQueue>>
    /\ UNCHANGED <<grid, version, input, numPages, texts, tables, tIdx, rIdx, row, hdr,
                   indices, records, metadata, error, exitCode, csv>>

\* variant: only an empty table is passed over
SkipsEmptyTable(nrows) == nrows < 1

\* "if not table or len(table) < 2: continue"
SkipsTable(nrows) == nrows < 2

\* "for table in tables" of the original parse_pdf
NextTable ==
    /\ pc = "table"
    /\ version = "original"
    /\ IF tIdx >= Len(tables) THEN pc' = "finish" /\ UNCHANGED <<tIdx, rIdx>>
       ELSE IF SkipsTable(tables[tIdx + 1].n)
            THEN pc' = "table" /\ tIdx' = tIdx + 1 /\ UNCHANGED rIdx
       ELSE pc' = "fetch" /\ rIdx' = 0 /\ UNCHANGED tIdx
    /\ UNCHANGED <<grid, version, input, numPages, texts, pageQueue, fallback, tables, row,
                   hdr, indices, records, metadata, error, exitCode, csv>>

\* the next row of the current table
FetchRow ==
    /\ pc = "fetch"
    /\ \E r \in Rows : row' = r
    /\ pc' = "row"
    /\ UNCHANGED <<grid, version, input, numPages, texts, pageQueue, fallback, tables, tIdx,
                   rIdx, hdr, indices, records, metadata, error, exitCode, csv>>

\* where the run goes after row rIdx of the current table
AfterRow ==
    IF rIdx + 1 < tables[tIdx + 1].n
    THEN pc' = "fetch" /\ rIdx' = rIdx + 1 /\ UNCHANGED tIdx
    ELSE /\ pc' = IF version = "original" THEN "table" ELSE "page"
         /\ tIdx' = tIdx + 1
         /\ rIdx' = 0

\* the body of "for r_idx, row in enumerate(table)" of the original parse_pdf
ClassifyRow ==
    /\ pc = "row"
    /\ version = "original"
    /\ IF row = <<>> THEN UNCHANGED <<indices, records, hdr>>
       ELSE /\ indices' = IndicesAfterRow(PadRow(row), indices)
            /\ records' = records \o RowRecords(PadRow(row), indices)
            /\ hdr' = IF indices = NoIndices THEN row ELSE hdr
    /\ AfterRow
    /\ UNCHANGED <<grid, version, input, numPages, texts, pageQueue, fallback, tables, row,
                   metadata, error, exitCode, csv>>

\* "for page in pdf.pages" of the simplified parse_pdf: extract_table yields
\* a table, nothing, or raises
SimpleNextPage ==
    /\ pc = "page"
    /\ version = "simplified"
    /\ IF pageQueue = <<>>
       THEN pc' = "finish" /\ UNCHANGED <<pageQueue, tables, error, exitCode>>
       ELSE \E raises \in BOOLEAN :
            \E n \in 0..(IF Len(tables) < MaxTables
                         THEN MaxTotalRows - TotalRows(tables) ELSE 0) :
               IF raises
               THEN Fail("Parse error") /\ UNCHANGED <<pageQueue, tables>>
               ELSE /\ pageQueue' = Tail(pageQueue)
                    /\ tables' = IF n = 0 THEN tables
                                 ELSE Append(tables, [page |-> Head(pageQueue), n |-> n])
                    /\ pc' = IF n = 0 THEN "page" ELSE "fetch"
                    /\ UNCHANGED <<error, exitCode>>
    /\ UNCHANGED <<grid, version, input, numPages, texts, fallback, tIdx, rIdx, row, hdr,
                   indices, records, metadata, csv>>

\* the body of "for row in table[start_idx:]" of the simplified parse_pdf;
\* row 0 is left out when it is the header
SimpleClassifyRow ==
    /\ pc = "row"
    /\ version = "simplified"
    /\ IF rIdx = 0 /\ SimpleIsHeader(row)
       THEN AfterRow /\ hdr' = row /\ UNCHANGED <<records, error, exitCode>>
       ELSE IF SimpleRow(row).raises
            THEN Fail("Parse error") /\ UNCHANGED <<records, tIdx, rIdx, hdr>>
       ELSE /\ records' = records \o SimpleRow(row).recs
            /\ AfterRow
            /\ UNCHANGED <<error, exitCode, hdr>>
    /\ UNCHANGED <<grid, version, input, numPages, texts, pageQueue, fallback, tables, row,
                   indices, metadata, csv>>

\* variant: the emptiness test is missing
NeverRaisesNoRows(recs) == FALSE

\* "if not records: raise ValueError(...)"
RaisesNoRows(recs) == recs = <<>>

Kw_unknown == <<"u", "n", "k", "n", "o", "w", "n">>

Kw_quote_ == <<"q", "u", "o", "t", "e", "_">>

Kw_parsed_csv ==
    <<"_", "p", "a", "r", "s", "e", "d", ".", "c", "s", "v">>

\* out_name of main()
OutName(meta) ==
    LET quote_num == IF meta.quote_number = NoneStr \/ meta.quote_number = <<>>
                     THEN Kw_unknown ELSE meta.quote_number
    IN  Kw_quote_ \o Replace(Replace(quote_num, <<"/">>, <<"-">>), <<" ">>, <<"_">>)
        \o Kw_parsed_csv

\* the end of parse_pdf and the rest of main(): no record is an error, else
\* save_csv writes the records
Finish ==
    /\ pc = "finish"
    /\ IF RaisesNoRows(records)
       THEN Fail("No pricing rows extracted") /\ UNCHANGED csv
       ELSE /\ csv' = [written |-> TRUE, name |-> OutName(metadata), rows |-> records]
            /\ pc' = "done"
            /\ exitCode' = 0
            /\ UNCHANGED error
    /\ UNCHANGED <<grid, version, input, numPages, texts, pageQueue, fallback, tables, tIdx,
                   rIdx, row, hdr, indices, records, metadata>>

Next ==
    \/ Open
    \/ ScanPage
    \/ ScanDone
    \/ NextTable
    \/ FetchRow
    \/ ClassifyRow
    \/ SimpleNextPage
    \/ SimpleClassifyRow
    \/ Finish

Spec == Init /\ [][Next]_vars

\* ------------------------------------------------------------------------
\* _extract_metadata / extract_metadata alone, over the page texts
\* ------------------------------------------------------------------------
InitMeta ==
    /\ version \in {"original", "simplified"}
    /\ input = "ok"
    /\ numPages \in 0..MaxPages
    /\ texts \in [first : PageTexts, last : PageTexts]
    /\ TextsFit(numPages, texts)
    /\ pc = "meta"
    /\ row = <<>>
    /\ grid = <<>>
    /\ InitRun

ExtractMetadata ==
    /\ pc = "meta"
    /\ metadata' = MetadataOf(version, numPages, texts)
    /\ pc' = "done"
    /\ UNCHANGED <<grid, version, input, numPages, texts, pageQueue, fallback, tables, tIdx,
                   rIdx, row, hdr, indices, records, error, exitCode, csv>>

SpecMeta == InitMeta /\ [][ExtractMetadata]_vars

\* ------------------------------------------------------------------------
\* _infer_column_indices alone, over header rows
\* ------------------------------------------------------------------------
InitInfer ==
    /\ version = "original"
    /\ input = "ok"
    /\ numPages = 0
    /\ texts = [first |-> P_None, last |-> P_None]
    /\ pc = "infer"
    /\ row \in UNION {[1..k -> HeaderCells] : k \in 1..MaxHeaderLen}
    /\ grid = <<>>
    /\ InitRun

InferColumns ==
    /\ pc = "infer"
    /\ indices' = _infer_column_indices(row)
    /\ pc' = "done"
    /\ UNCHANGED <<grid, version, input, numPages, texts, pageQueue, fallback, tables, tIdx,
                   rIdx, row, hdr, records, metadata, error, exitCode, csv>>

SpecInfer == InitInfer /\ [][InferColumns]_vars

\* ------------------------------------------------------------------------
\* The row loop of the original parse_pdf alone, over one table
\* ------------------------------------------------------------------------
\* one iteration of "for r_idx, row in enumerate(table)":
\* st is [indices, records, hdr] before the row
RowStep(r, st) ==
    IF r = <<>> THEN st
    ELSE [indices |-> IndicesAfterRow(PadRow(r), st.indices),
          records |-> st.records \o RowRecords(PadRow(r), st.indices),
          hdr |-> IF st.indices = NoIndices THEN r ELSE st.hdr]

\* the loop from row k on: [indices, records, hdr] at the end of the table
\* (the state of each iteration is a value before the next one starts)
RECURSIVE TableLoop(_, _, _)
TableLoop(table, k, st) ==
    IF k > Len(table) THEN st
    ELSE CHOOSE end \in {TableLoop(table, k + 1, next) :
                            next \in {RowStep(table[k], s) : s \in {st}}} : TRUE

InitGrid ==
    /\ version = "original"
    /\ input = "ok"
    /\ numPages = 1
    /\ texts = [first |-> P_None, last |-> P_None]
    /\ pc = "grid"
    /\ row = <<>>
    /\ grid \in UNION {[1..k -> Rows] : k \in 0..MaxGridRows}
    /\ InitRun

\* one pass of "for table in tables" with indices still None
ProcessGrid ==
    /\ pc = "grid"
    /\ \E st \in {IF SkipsTable(Len(grid))
                 THEN [indices |-> indices, records |-> records, hdr |-> hdr]
                 ELSE TableLoop(grid, 1, [indices |-> indices, records |-> records,
                                          hdr |-> hdr])} :
           /\ indices' = st.indices
           /\ records' = st.records
           /\ hdr' = st.hdr
    /\ pc' = "done"
    /\ UNCHANGED <<grid, version, input, numPages, texts, pageQueue, fallback, tables,
                   tIdx, rIdx, row, metadata, error, exitCode, csv>>

SpecGrid == InitGrid /\ [][ProcessGrid]_vars

\* ---- the page selection of the original parse_pdf on longer documents ----

\* a run of the original script on an existing PDF of up to MaxDocPages pages
InitPages ==
    /\ version = "original"
    /\ input = "ok"
    /\ numPages \in 0..MaxDocPages
    /\ texts = [first |-> P_None, last |-> P_None]
    /\ pc = "start"
    /\ row = <<>>
    /\ grid = <<>>
    /\ InitRun

NextPages ==
    \/ Open
    \/ ScanPage
    \/ ScanDone
    \/ NextTable
    \/ FetchRow
    \/ ClassifyRow
    \/ Finish

SpecPages == InitPages /\ [][NextPages]_vars

\* ------------------------------------------------------------------------
\* Properties
\* ------------------------------------------------------------------------
IsProductRecord(r) == r.PartNumber # <<>> /\ r.Price # <<>>

IsSeriesDiscountRecord(r) ==
    r.Series # <<>> /\ r.Discount # <<>> /\ r.PartNumber = <<>> /\ r.Price = <<>>

\* records' is records with one record appended
AppendsOne == Len(records') = Len(records) + 1 /\ SubSeq(records', 1, Len(records)) = records

Last(s) == s[Len(s)]

\* C1: every accumulated record is a product record (Part Number and Price
\* non-empty) or a series-discount record (Series and Discount non-empty,
\* Part Number and Price empty), and none has both Price and Discount.
C1_Claim ==
    \A i \in 1..Len(records) :
        /\ IsProductRecord(records[i]) \/ IsSeriesDiscountRecord(records[i])
        /\ ~(records[i].Price # <<>> /\ records[i].Discount # <<>>)

\* the discount and the price the original parse_pdf reads in the row just
\* classified, under the mapping in force after the step
RowDiscount == _extract_discount_from_cell(CellAt(PadRow(row), indices'.discount))

RowPrice == _extract_price_from_cell(CellAt(PadRow(row), indices'.price))

\* a step of the original parse_pdf that classifies a non-header row
ClassifiesRow ==
    pc = "row" /\ version = "original" /\ row # <<>> /\ ~_is_header_row(PadRow(row))

\* C2 as claimed: a row of the original pipeline with a discount and no price
\* gives exactly one series-discount record, a row with a price exactly one
\* product record with empty Series and Discount, any other row no record.
C2_Claim ==
    [][ClassifiesRow =>
          IF RowPrice # NoneStr
          THEN /\ AppendsOne
               /\ Last(records').Price = RowPrice
               /\ Last(records').Series = <<>>
               /\ Last(records').Discount = <<>>
          ELSE IF RowDiscount # NoneStr
          THEN /\ AppendsOne
               /\ Last(records').PartNumber = <<>>
               /\ Last(records').Price = <<>>
          ELSE records' = records]_vars

\* C2 amended: as claimed, except that the product record carries the
\* normalized series-role cell as Series and the parsed discount-role cell
\* (empty when it does not parse) as Discount.
C2_Theorem ==
    [][ClassifiesRow =>
          IF RowPrice # NoneStr
          THEN /\ AppendsOne
               /\ Last(records').Price = RowPrice
               /\ Last(records').Series =
                      _series_numeric_only(get(PadRow(row), indices'.series))
               /\ Last(records').Discount =
                      (IF RowDiscount = NoneStr THEN <<>> ELSE RowDiscount)
          ELSE IF RowDiscount # NoneStr
          THEN /\ AppendsOne
               /\ Last(records').PartNumber = <<>>
               /\ Last(records').Price = <<>>
               /\ Last(records').Discount = RowDiscount
          ELSE records' = records]_vars

\* a priced row with a series and a discount has become a product record
C2_Witness ==
    /\ version = "original"
    /\ pc \in {"fetch", "table"}
    /\ row = R_Connector
    /\ hdr = H_Full
    /\ records # <<>>
    /\ Last(records).PartNumber = T_221_412
    /\ Last(records).Series = T_221
    /\ Last(records).Discount = T_10pct

T_Usd125_00 == <<"$", "1", "2", "5", ".", "0", "0">>

\* C3: the one-page document with the table [WAGO Part #, Description, Price],
\* [750-500, 8-Channel Module, 125.00] yields exactly the product record
\* 750-500 / "" / 8-Channel Module / $125.00 / "".
C3_Claim ==
    (/\ pc = "done"
     /\ numPages = 1
     /\ Len(tables) = 1
     /\ tables[1].n = 2
     /\ hdr = H_Wago
     /\ row = R_Module)
    => records = <<[PartNumber |-> T_750_500, Series |-> <<>>,
                    Description |-> T_Module8, Price |-> T_Usd125_00,
                    Discount |-> <<>>]>>

\* a row of the simplified parse_pdf past the header whose description holds
\* the combined pattern and whose price cell is not populated
CombinedUnpriced ==
    /\ pc = "row"
    /\ version = "simplified"
    /\ ~(rIdx = 0 /\ SimpleIsHeader(row))
    /\ Len(row) >= 3
    /\ OrEmpty(row[2]).kind = "str"
    /\ RE_SERIES_DISCOUNT_search(OrEmpty(row[2]).str) # <<>>
    /\ OrEmpty(row[3]).kind = "str"
    /\ Strip(OrEmpty(row[3]).str) = <<>>

\* C4: in the simplified pipeline a row whose description matches
\* "<3 digits> Series ... <percent>%" and whose price cell is not populated
\* yields a series-discount record: Series the 3 digits, Discount the
\* percentage and "%", Part Number and Price empty.
C4_Claim ==
    [][CombinedUnpriced =>
          /\ AppendsOne
          /\ Last(records').Series = RE_SERIES_DISCOUNT_search(OrEmpty(row[2]).str)[1]
          /\ Last(records').Discount =
                 RE_SERIES_DISCOUNT_search(OrEmpty(row[2]).str)[2] \o <<"%">>
          /\ Last(records').PartNumber = <<>>
          /\ Last(records').Price = <<>>]_vars

\* C5: a document that ends with no record fails with the no-rows error, exit
\* code 1 and no CSV file; a CSV file exists only with exit code 0 and then
\* holds at least one record.
C5_Theorem ==
    [][/\ (pc = "finish" /\ records = <<>>) =>
              /\ error' = "No pricing rows extracted"
              /\ exitCode' = 1
              /\ ~csv'.written
       /\ csv'.written => (exitCode' = 0 /\ csv'.rows = records' /\ records' # <<>>)
       /\ exitCode' = 1 => ~csv'.written
       /\ exitCode' = 0 => csv'.written]_vars

\* a document with tables and no record has ended in the no-rows error
C5_Witness ==
    /\ pc = "done"
    /\ tables # <<>>
    /\ records = <<>>
    /\ error = "No pricing rows extracted"
    /\ exitCode = 1
    /\ ~csv.written

\* C6 as claimed: in both pipelines no record is derived from a row of a
\* table that has fewer than 2 rows.
C6_Claim ==
    [][records' # records => (pc = "row" /\ tables[tIdx + 1].n >= 2)]_vars

\* C6 amended: in the original pipeline no record is derived from a row of a
\* table that has fewer than 2 rows (the simplified pipeline has no such
\* rule).
C6_Theorem ==
    [][(version = "original" /\ records' # records) =>
           (pc = "row" /\ tables[tIdx + 1].n >= 2)]_vars

\* the original pipeline has passed over a one-row table and taken records
\* from another table
C6_Witness ==
    /\ version = "original"
    /\ pc = "done"
    /\ exitCode = 0
    /\ \E i \in 1..Len(tables) : tables[i].n = 1

\* a "$", then the number, ending in a point and two digits
IsCurrency(p) ==
    /\ Len(p) >= 5
    /\ p[1] = "$"
    /\ p[Len(p) - 2] = "."
    /\ IsDigit(p[Len(p) - 1])
    /\ IsDigit(p[Len(p)])
    /\ IsDigit(p[Len(p) - 3])

\* the price cell of the row being classified: the price-role cell of the
\* original parse_pdf, row[2] of the simplified one
PriceCell ==
    IF version = "original" THEN CellAt(PadRow(row), indices'.price)
    ELSE IF Len(row) >= 3 THEN row[3] ELSE NoneCell

\* a numeric cell, a currency-prefixed text or a bare numeric text
IsPriceCell(c) ==
    \/ c.kind = "float"
    \/ /\ c.kind = "str"
       /\ \/ RE_PRICE_search(Strip(c.str)) # NoneStr
          \/ FloatParse(Strip(Replace(Replace(Strip(c.str), <<",">>, <<>>),
                                      <<"$">>, <<>>))).ok

\* C7: in both pipelines the Price of a record made from a row whose price
\* cell is numeric, currency-prefixed text or bare numeric text is a currency
\* string that starts with "$" and ends with exactly two decimal digits, and
\* the Price of a series-discount record is empty.
C7_Claim ==
    [][(pc = "row" /\ row # <<>> /\ IsPriceCell(PriceCell) /\ records' # records) =>
           \/ IsCurrency(Last(records').Price)
           \/ IsSeriesDiscountRecord(Last(records'))]_vars

\* the text of a page as the metadata sees it when failures are kept to the
\* page: absent if extract_text raised or gave nothing
PageText(p) == IF p.raises \/ p.text = NoneStr THEN <<>> ELSE p.text

\* C8: metadata extraction of the original pipeline keeps a failure to its
\* page: a field matched by the text of a scanned page (first or last) whose
\* extraction did not raise is populated, whatever the other page does, and
\* a field matched on no page stays null.
C8_Claim ==
    (pc = "done" /\ version = "original" /\ numPages >= 1) =>
        /\ \A p \in {texts.first, texts.last} :
              /\ RE_QUOTE_NUMBER_search(PageText(p)) # NoneStr
                     => metadata.quote_number # NoneStr
              /\ RE_DATE_search(PageText(p)) # NoneStr => metadata.date # NoneStr
              /\ RE_EXPIRATION_search(PageText(p)) # NoneStr
                     => metadata.expiration_date # NoneStr
              /\ RE_CUSTOMER_search(PageText(p)) # NoneStr => metadata.customer # NoneStr
        /\ (\A p \in {texts.first, texts.last} : PageText(p) = <<>>)
               => metadata = NoMetadata

\* C9 as claimed: the mapping in force for the rows of a processed table is
\* the one inferred from that table's own first row.
C9_Claim ==
    [][(pc = "row" /\ version = "original" /\ rIdx = 0 /\ row # <<>>) =>
           indices' = _infer_column_indices(PadRow(row))]_vars

\* C9 amended: the mapping is inferred once per document, from the first
\* non-empty row of the first processed table, and no later row of any table
\* changes it.
C9_Theorem ==
    [][IF pc = "row" /\ version = "original" /\ row # <<>> /\ indices = NoIndices
       THEN indices' = _infer_column_indices(PadRow(row)) /\ indices' # NoIndices
       ELSE indices' = indices]_vars

\* the rows of a second table, with a header of its own, are classified under
\* the mapping read from the first table
C9_Witness ==
    /\ version = "original"
    /\ tIdx = 1
    /\ rIdx = 1
    /\ pc = "fetch"
    /\ row = H_Full
    /\ hdr = H_Wago
    /\ indices = _infer_column_indices(PadRow(H_Wago))
    /\ indices # _infer_column_indices(PadRow(H_Full))

RoleNames == {"part", "series", "description", "price", "discount"}

\* the role whose keywords the header text matches, in the order of the tests
RoleOf(cell, h) ==
    IF IsPartHeader(cell) THEN "part"
    ELSE IF IsSeriesHeader(cell) THEN "series"
    ELSE IF IsDescriptionHeader(cell) THEN "description"
    ELSE IF IsPriceHeader(cell, h) THEN "price"
    ELSE IF IsDiscountHeader(cell) THEN "discount"
    ELSE "none"

\* the zero-based columns of the header row whose cell takes the role
ColumnsOf(role) ==
    LET h == HeaderTexts(row)
    IN  {i \in 0..(Len(h) - 1) : RoleOf(h[i + 1], h) = role}

SetMin(S) == CHOOSE x \in S : \A y \in S : x <= y

SetMax(S) == CHOOSE x \in S : \A y \in S : x >= y

\* C10 as claimed: each role gets the index of the first header cell that
\* matches its keywords.
C10_Claim ==
    pc = "done" =>
        \A role \in RoleNames :
            ColumnsOf(role) # {} => indices[role] = SetMin(ColumnsOf(role))

\* C10 amended: each role gets the index of the last header cell that takes
\* the role (a cell takes the first role, in the order part, series,
\* description, price, discount, whose keywords it contains); a role no cell
\* takes is null, but price is length-2 in a row of 4 or more cells and
\* discount is length-1 in a row of 5 or more.
C10_Theorem ==
    pc = "done" =>
        \A role \in RoleNames :
            indices[role] =
                IF ColumnsOf(role) # {} THEN SetMax(ColumnsOf(role))
                ELSE IF role = "price" /\ Len(row) >= 4 THEN Len(row) - 2
                ELSE IF role = "discount" /\ Len(row) >= 5 THEN Len(row) - 1
                ELSE None

\* two price headers: the later one has the role
C10_Witness ==
    /\ pc = "done"
    /\ row = <<StrCell(T_PartNo), StrCell(T_ListPrice), StrCell(T_NetPrice)>>
    /\ indices.price = 2

\* the non-empty rows of the table, padded as parse_pdf pads them
GridRows ==
    LET Filled(r) == r # <<>>
        rows == SelectSeq(grid, Filled)
    IN  [k \in 1..Len(rows) |-> PadRow(rows[k])]

\* the table was processed and its first non-empty row is no header row
Headerless ==
    /\ ~SkipsTable(Len(grid))
    /\ GridRows # <<>>
    /\ ~_is_header_row(GridRows[1])

\* C11: in the original pipeline the rows of a table with no header row
\* before its first data row are read under the content-driven fallback
\* (part 0, series 1, description 2, price and discount the columns with the
\* most price-like and percentage-like cells, else second-to-last and last),
\* so a priced data row yields a product record whose Part Number is the
\* cleaned text of its column 0.
C11_Claim ==
    (pc = "done" /\ Headerless) =>
        /\ indices = _infer_column_indices_from_rows(GridRows)
        /\ \A k \in 1..Len(GridRows) :
              (/\ ~_is_header_row(GridRows[k])
               /\ _extract_price_from_cell(CellAt(GridRows[k], indices.price)) # NoneStr)
              => \E i \in 1..Len(records) :
                    /\ records[i].PartNumber = _clean_part_number(get(GridRows[k], 0))
                    /\ records[i].Price =
                           _extract_price_from_cell(CellAt(GridRows[k], indices.price))

\* pages 1..min(through, last page) and then the final page, each once, of a
\* document of n > 1 pages (zero-based, as pdf.pages is indexed)
FirstScan(n, through) ==
    LET upto == Min(through, n - 1)
    IN  [i \in 1..upto |-> i] \o (IF upto < n - 1 THEN <<n - 1>> ELSE <<>>)

\* no page twice, pages in rising order
Rising(s) == \A i \in 1..Len(s) : \A j \in (i + 1)..Len(s) : s[i] < s[j]

\* the tables lie in the order of the pages they were found on
InPageOrder(ts) ==
    \A i \in 1..Len(ts) : \A j \in (i + 1)..Len(ts) : ts[i].page <= ts[j].page

\* one step of a run, with "first" the first scan of a multi-page document:
\* the first scan is "first" (page 0 for a document of one page), no page
\* is scanned twice by a scan, the scan of all pages starts exactly when the
\* first scan ends without a table and is not repeated, the tables of a scanned
\* page are appended under that page, and the records grow only by appending
\* while the row loop moves forward through the tables and their rows
PageSelectionStep(first) ==
    /\ (pc = "start" /\ pc' = "scan") =>
           pageQueue' = IF numPages > 1 THEN first ELSE <<0>>
    /\ Rising(pageQueue)
    /\ (pc = "scan" /\ pageQueue = <<>>) =>
           /\ fallback' = (fallback \/ tables = <<>>)
           /\ (pc' = "scan") = (~fallback /\ tables = <<>>)
           /\ pc' = "scan" => pageQueue' = [i \in 1..numPages |-> i - 1]
    /\ (fallback' # fallback) => (pc = "scan" /\ pageQueue = <<>> /\ tables = <<>>)
    /\ (pc = "scan" /\ pageQueue # <<>>) =>
           /\ pageQueue' = Tail(pageQueue)
           /\ Len(tables') >= Len(tables)
           /\ SubSeq(tables', 1, Len(tables)) = tables
           /\ \A k \in (Len(tables) + 1)..Len(tables') :
                  tables'[k].page = Head(pageQueue) /\ Head(pageQueue) < numPages
    /\ (tables' # tables) => (pc = "scan" /\ pageQueue # <<>>)
    /\ InPageOrder(tables)
    /\ Len(records') >= Len(records)
    /\ SubSeq(records', 1, Len(records)) = records
    /\ (records' # records) => (pc = "row" /\ tIdx < Len(tables) /\ rIdx < tables[tIdx + 1].n)
    /\ tIdx' > tIdx \/ (tIdx' = tIdx /\ rIdx' >= rIdx)

\* C12 (as stated): page selection in the original pipeline: for a multi-page
\* document the first scan covers pages 1..min(9, last page) plus the final
\* page, each page at most once; all pages are scanned instead if and only if
\* that first scan found no tables; a single-page document has its only page
\* scanned; records are accumulated in the order pages, tables and rows are
\* encountered by the scan that produced the tables.
C12_Claim == [][PageSelectionStep(FirstScan(numPages, 9))]_vars

\* C12 (amended): as above, with the first scan of a multi-page document
\* covering pages 1..min(8, last page) plus the final page.
C12_Theorem == [][PageSelectionStep(FirstScan(numPages, 8))]_vars

\* a document of more than ten pages whose first scan found no table, and
\* whose scan of all pages found one on page 9, has yielded records
C12_Witness ==
    /\ numPages > 10
    /\ fallback
    /\ pc = "done"
    /\ records # <<>>
    /\ \E k \in 1..Len(tables) : tables[k].page = 9

====
